---- MODULE Spec2Model ----
(***************************************************************************)
(* Model of app.py: the Flask service with GET / and POST /analyze.        *)
(* Strings whose content the code inspects (filename, job description,     *)
(* page text) are sequences of one-character strings; "nl" is "\n".        *)
(***************************************************************************)
EXTENDS Integers, Sequences, FiniteSets, TLC

VARIABLES phase, client, pc, req, resume_text, prompt, attempt, log,
          response, raised, escaped, indexResp

vars == <<phase, client, pc, req, resume_text, prompt, attempt, log,
          response, raised, escaped, indexResp>>

----------------------------------------------------------------------------
(* Bounds of the model *)

MaxPages == 2

MaxJdLen == 2

----------------------------------------------------------------------------
(* Program constants *)

MAX_RETRIES == 3

\* the literal credential of line 16: a non-empty string
GEMINI_API_KEY == <<"A", "I", "z", "a">>

Whitespace == {" ", "nl"}

PdfSuffix == <<".", "p", "d", "f">>

----------------------------------------------------------------------------
(* str methods used by the code *)

Lower(c) ==
    CASE c = "P" -> "p"
      [] c = "D" -> "d"
      [] c = "F" -> "f"
      [] c = "R" -> "r"
      [] OTHER -> c

LowerStr(s) == [i \in 1..Len(s) |-> Lower(s[i])]

EndsWith(s, suffix) ==
    /\ Len(s) >= Len(suffix)
    /\ SubSeq(s, Len(s) - Len(suffix) + 1, Len(s)) = suffix

RECURSIVE LStrip(_)
LStrip(s) ==
    IF s # <<>> /\ Head(s) \in Whitespace THEN LStrip(Tail(s)) ELSE s

RECURSIVE RStrip(_)
RStrip(s) ==
    IF s # <<>> /\ s[Len(s)] \in Whitespace
    THEN RStrip(SubSeq(s, 1, Len(s) - 1))
    ELSE s

Strip(s) == RStrip(LStrip(s))

----------------------------------------------------------------------------
(* Inputs *)

PageTexts == {<<>>, <<" ">>, <<"a">>}

\* what page.extract_text() does on one page: returns a text or raises
PageOutcomes ==
    {[raises |-> TRUE, text |-> <<>>]} \cup
    {[raises |-> FALSE, text |-> t] : t \in PageTexts}

PageSeqs == UNION {[1..n -> PageOutcomes] : n \in 0..MaxPages}

\* an uploaded document: PdfReader raises on it, or it has pages
Documents ==
    {[parseRaises |-> TRUE, pages |-> <<>>]} \cup
    {[parseRaises |-> FALSE, pages |-> p] : p \in PageSeqs}

EmptyDocument == [parseRaises |-> FALSE, pages |-> <<>>]

Filenames ==
    { <<>>,
      <<"r", ".", "p", "d", "f">>,
      <<"R", ".", "P", "D", "F">>,
      <<".", "p", "d", "f">>,
      <<"r", ".", "t", "x", "t">>,
      <<"p", "d", "f">>,
      <<".", "p", "d", "f", ".", "x">> }

JobDescriptions == UNION {[1..n -> {" ", "g"}] : n \in 0..MaxJdLen}

\* a multipart request: either field may be absent; tooLarge is a body over
\* MAX_CONTENT_LENGTH; readRaises is resume_file.read() failing
Req(hr, f, d, rr, hj, j, tl) ==
    [hasResume |-> hr, filename |-> f, doc |-> d, readRaises |-> rr,
     hasJd |-> hj, jd |-> j, tooLarge |-> tl]

Requests ==
    { Req(TRUE, f, d, rr, TRUE, j, tl) :
        f \in Filenames, d \in Documents, rr \in BOOLEAN,
        j \in JobDescriptions, tl \in BOOLEAN } \cup
    { Req(TRUE, f, d, FALSE, FALSE, <<>>, tl) :
        f \in Filenames, d \in Documents, tl \in BOOLEAN } \cup
    { Req(FALSE, <<>>, EmptyDocument, FALSE, hj, j, tl) :
        hj \in BOOLEAN, j \in JobDescriptions, tl \in BOOLEAN }

NoRequest == Req(FALSE, <<>>, EmptyDocument, FALSE, FALSE, <<>>, FALSE)

\* response.text of a successful generate_content call
AnalysisTexts == {"**85/100**", "No match"}

\* what one generate_content call does
CallOutcomes ==
    {[kind |-> "ok", text |-> t] : t \in AnalysisTexts} \cup
    {[kind |-> "APIError", text |-> ""], [kind |-> "Exception", text |-> ""]}

----------------------------------------------------------------------------
(* Responses: (jsonify(body), status) *)

Resp(status, success, analysis, error, attempts) ==
    [status |-> status, success |-> success, analysis |-> analysis,
     error |-> error, attempts |-> attempts]

NoResponse == Resp(0, FALSE, "", "", 0)

ErrorResp(status, error) == Resp(status, FALSE, "", error, 0)

ClientNotInitialized ==
    ErrorResp(500, "Gemini API client not initialized")

MissingData == ErrorResp(400, "Missing required data")

NoFileSelected == ErrorResp(400, "No resume file selected")

InvalidFileType == ErrorResp(400, "Invalid file type")

EmptyJobDescription == ErrorResp(400, "Job description cannot be empty")

ExtractionFailure == ErrorResp(500, "Could not extract readable text from PDF")

SuccessFixed(text) == Resp(200, TRUE, "**85/100**", "", 0)

Success(text) == Resp(200, TRUE, text, "", 0)

ApiErrorResp == Resp(500, FALSE, "", "Gemini API Error after attempts", MAX_RETRIES)

UnexpectedResp == ErrorResp(500, "Unexpected error")

InternalErrorResp == ErrorResp(500, "Internal Server Error")

IndexPage == Resp(200, FALSE, "index.html", "", 0)

----------------------------------------------------------------------------
(* Startup: construction of the client *)

ClientInitUncaught(key, ctorRaises) ==
    IF key # <<>>
    THEN IF ctorRaises
         THEN [client |-> "None", phase |-> "crashed"]
         ELSE [client |-> "Client", phase |-> "serving"]
    ELSE [client |-> "None", phase |-> "serving"]

\* client = None; if GEMINI_API_KEY: try: client = genai.Client(...)
\* except Exception: client = None
ClientInit(key, ctorRaises) ==
    IF key # <<>>
    THEN IF ctorRaises
         THEN [client |-> "None", phase |-> "serving"]
         ELSE [client |-> "Client", phase |-> "serving"]
    ELSE [client |-> "None", phase |-> "serving"]

----------------------------------------------------------------------------
(* Text extraction *)

NoText == [none |-> TRUE, text |-> <<>>]

RECURSIVE ExtractPages(_, _)
ExtractPages(pages, text) ==
    IF pages = <<>>
    THEN [none |-> FALSE, text |-> Strip(text)]
    ELSE IF Head(pages).raises
         THEN NoText
         ELSE ExtractPages(Tail(pages),
                           IF Head(pages).text # <<>>
                           THEN text \o Head(pages).text \o <<"nl">>
                           ELSE text)

RECURSIVE ExtractPagesNoStrip(_, _)
ExtractPagesNoStrip(pages, text) ==
    IF pages = <<>>
    THEN [none |-> FALSE, text |-> text]
    ELSE IF Head(pages).raises
         THEN NoText
         ELSE ExtractPagesNoStrip(Tail(pages),
                                  IF Head(pages).text # <<>>
                                  THEN text \o Head(pages).text \o <<"nl">>
                                  ELSE text)

extract_text_from_pdf_nostrip(doc) ==
    IF doc.parseRaises THEN NoText ELSE ExtractPagesNoStrip(doc.pages, <<>>)

extract_text_from_pdf(doc) ==
    IF doc.parseRaises THEN NoText ELSE ExtractPages(doc.pages, <<>>)

\* Python truth value of resume_text (None and "" are false)
Truthy(t) == ~t.none /\ t.text # <<>>

----------------------------------------------------------------------------
(* Request validation, lines 69-83 *)

ClientIsNoneSkipped(c) == FALSE

ClientIsNone(c) == c = "None"

ValidationErrorNoTrim(r) ==
    IF ~r.hasResume \/ ~r.hasJd THEN MissingData
    ELSE IF r.filename = <<>> THEN NoFileSelected
    ELSE IF ~EndsWith(LowerStr(r.filename), PdfSuffix) THEN InvalidFileType
    ELSE IF r.jd = <<>> THEN EmptyJobDescription
    ELSE NoResponse

\* the 400 response of the first failing check, NoResponse when all pass
ValidationError(r) ==
    IF ~r.hasResume \/ ~r.hasJd THEN MissingData
    ELSE IF r.filename = <<>> THEN NoFileSelected
    ELSE IF ~EndsWith(LowerStr(r.filename), PdfSuffix) THEN InvalidFileType
    ELSE IF Strip(r.jd) = <<>> THEN EmptyJobDescription
    ELSE NoResponse

----------------------------------------------------------------------------
(* Prompt construction, lines 94-121 *)

NoPrompt == [system_instruction |-> "", job_description |-> <<>>, resume |-> <<>>]

BuildPrompt(jd, text) ==
    [system_instruction |-> "ATS and Career Coach",
     job_description |-> jd, resume |-> text]

----------------------------------------------------------------------------
(* The retry loop, lines 124-152; attempt is 0-indexed as in the code *)

BackoffLinear(att) == 2 * att

Backoff(att) == 2 ^ att

ShouldRetryEarlyStop(att) == att < MAX_RETRIES - 2

ShouldRetryAlways(att) == att < MAX_RETRIES

ShouldRetry(att) == att < MAX_RETRIES - 1

Returns(resp) == [ret |-> TRUE, resp |-> resp, sleep |-> <<>>]

AfterCallRetryAny(att, outcome) ==
    IF outcome.kind = "ok" THEN Returns(Success(outcome.text))
    ELSE IF ShouldRetry(att)
         THEN [ret |-> FALSE, resp |-> NoResponse, sleep |-> <<Backoff(att)>>]
         ELSE Returns(ApiErrorResp)

\* what the loop body does with the outcome of the call of this attempt
AfterCall(att, outcome) ==
    IF outcome.kind = "ok" THEN Returns(Success(outcome.text))
    ELSE IF outcome.kind = "APIError"
         THEN IF ShouldRetry(att)
              THEN [ret |-> FALSE, resp |-> NoResponse,
                    sleep |-> <<Backoff(att)>>]
              ELSE Returns(ApiErrorResp)
         ELSE Returns(UnexpectedResp)

CallEvent(att, outcome) ==
    [ev |-> "call", n |-> att + 1, out |-> outcome.kind, text |-> outcome.text]

SleepEvent(secs) == [ev |-> "sleep", n |-> secs, out |-> "", text |-> ""]

----------------------------------------------------------------------------
(* State machine *)

Init ==
    /\ phase = "boot"
    /\ client = "None"
    /\ pc = "idle"
    /\ req = NoRequest
    /\ resume_text = NoText
    /\ prompt = NoPrompt
    /\ attempt = 0
    /\ log = <<>>
    /\ response = NoResponse
    /\ raised = "none"
    /\ escaped = FALSE
    /\ indexResp = NoResponse

handlerVars == <<pc, req, resume_text, prompt, attempt, log, response, raised,
                 escaped>>

Startup ==
    /\ phase = "boot"
    /\ \E ctorRaises \in BOOLEAN :
         LET r == ClientInit(GEMINI_API_KEY, ctorRaises)
         IN  /\ client' = r.client
             /\ phase' = r.phase
    /\ UNCHANGED <<handlerVars, indexResp>>

\* GET /
Index ==
    /\ phase = "serving"
    /\ indexResp' = IndexPage
    /\ UNCHANGED <<phase, client, handlerVars>>

\* POST /analyze arrives
Receive ==
    /\ phase = "serving"
    /\ pc = "idle"
    /\ \E r \in Requests : req' = r
    /\ pc' = "check_client"
    /\ UNCHANGED <<phase, client, resume_text, prompt, attempt, log, response,
                   raised, escaped, indexResp>>

Return(resp) ==
    /\ pc' = "done"
    /\ response' = resp

\* 1. API Key Check
CheckClient ==
    /\ pc = "check_client"
    /\ IF ClientIsNone(client)
       THEN Return(ClientNotInitialized)
       ELSE pc' = "validate" /\ UNCHANGED response
    /\ UNCHANGED <<phase, client, req, resume_text, prompt, attempt, log,
                   raised, escaped, indexResp>>

\* 2. Input Validation; request.files raises on a body over MAX_CONTENT_LENGTH,
\* outside the try block
Validate ==
    /\ pc = "validate"
    /\ IF req.tooLarge
       THEN /\ raised' = "RequestEntityTooLarge"
            /\ escaped' = TRUE
            /\ pc' = "done"
            /\ UNCHANGED response
       ELSE /\ IF ValidationError(req) # NoResponse
               THEN Return(ValidationError(req))
               ELSE pc' = "extract" /\ UNCHANGED response
            /\ UNCHANGED <<raised, escaped>>
    /\ UNCHANGED <<phase, client, req, resume_text, prompt, attempt, log,
                   indexResp>>

\* 3. PDF Parsing
Extract ==
    /\ pc = "extract"
    /\ IF req.readRaises
       THEN /\ raised' = "IOError"
            /\ Return(InternalErrorResp)
            /\ UNCHANGED <<resume_text, log>>
       ELSE /\ resume_text' = extract_text_from_pdf(req.doc)
            /\ log' = Append(log, [ev |-> "extract", n |-> 0, out |-> "", text |-> ""])
            /\ IF ~Truthy(resume_text')
               THEN Return(ExtractionFailure)
               ELSE pc' = "prompt" /\ UNCHANGED response
            /\ UNCHANGED raised
    /\ UNCHANGED <<phase, client, req, prompt, attempt, escaped, indexResp>>

\* 4. Prompt Construction
Prompt ==
    /\ pc = "prompt"
    /\ prompt' = BuildPrompt(req.jd, resume_text.text)
    /\ pc' = "call"
    /\ UNCHANGED <<phase, client, req, resume_text, attempt, log, response,
                   raised, escaped, indexResp>>

\* 5. one iteration of the retry loop
CallApi ==
    /\ pc = "call"
    /\ \E o \in CallOutcomes :
         LET r == AfterCall(attempt, o)
             called == Append(log, CallEvent(attempt, o))
         IN  IF r.ret
             THEN /\ log' = called
                  /\ Return(r.resp)
                  /\ UNCHANGED attempt
             ELSE /\ log' = called \o [i \in 1..Len(r.sleep) |-> SleepEvent(r.sleep[i])]
                  /\ attempt' = attempt + 1
                  /\ IF attempt + 1 < MAX_RETRIES
                     THEN pc' = "call" /\ UNCHANGED response
                     ELSE Return(NoResponse)
    /\ UNCHANGED <<phase, client, req, resume_text, prompt, raised, escaped,
                   indexResp>>

\* the request is over; nothing is kept for the next one
Finish ==
    /\ pc = "done"
    /\ pc' = "idle"
    /\ req' = NoRequest
    /\ resume_text' = NoText
    /\ prompt' = NoPrompt
    /\ attempt' = 0
    /\ log' = <<>>
    /\ response' = NoResponse
    /\ raised' = "none"
    /\ escaped' = FALSE
    /\ UNCHANGED <<phase, client, indexResp>>

Next ==
    \/ Startup
    \/ Index
    \/ Receive
    \/ CheckClient
    \/ Validate
    \/ Extract
    \/ Prompt
    \/ CallApi
    \/ Finish

Spec == Init /\ [][Next]_vars

\* the handler runs to its return once a request has arrived, and every call
\* to the upstream service produces an outcome
FairSpec ==
    Spec /\ WF_vars(CheckClient) /\ WF_vars(Validate) /\ WF_vars(Extract)
         /\ WF_vars(Prompt) /\ WF_vars(CallApi)

----------------------------------------------------------------------------
(* Observations on the log of one request *)

IsCall(e) == e.ev = "call"

IsSleep(e) == e.ev = "sleep"

IsExtract(e) == e.ev = "extract"

IsRetryEvent(e) == e.ev # "extract"

CallLog == SelectSeq(log, IsCall)

SleepLog == SelectSeq(log, IsSleep)

RetryLog == SelectSeq(log, IsRetryEvent)

Calls == Len(CallLog)

Extractions == Len(SelectSeq(log, IsExtract))

RECURSIVE SumN(_)
SumN(s) == IF s = <<>> THEN 0 ELSE Head(s).n + SumN(Tail(s))

SleepTotal == SumN(SleepLog)

ApiErrors == Cardinality({i \in 1..Calls : CallLog[i].out = "APIError"})

\* the upstream service behaved as a stub that reports an API error on each
\* of its first two calls at most and succeeds on the next one
StubFailsThenSucceeds ==
    /\ Calls >= 1
    /\ \A i \in 1..Calls : CallLog[i].out \in {"APIError", "ok"}
    /\ \A i \in 1..(Calls - 1) : CallLog[i].out = "APIError"
    /\ ApiErrors <= 2

\* the upstream service behaved as a stub that always reports an API error
StubAlwaysFails ==
    /\ Calls >= 1
    /\ \A i \in 1..Calls : CallLog[i].out = "APIError"

ExpectedDelays == <<1, 2>>

----------------------------------------------------------------------------
(* Properties of the inputs, stated without the code's helpers *)

IsPdfName(f) ==
    /\ Len(f) >= 4
    /\ f[Len(f) - 3] = "."
    /\ f[Len(f) - 2] \in {"p", "P"}
    /\ f[Len(f) - 1] \in {"d", "D"}
    /\ f[Len(f)] \in {"f", "F"}

Blank(s) == \A i \in 1..Len(s) : s[i] \in Whitespace

FailsValidation(r) ==
    \/ ~r.hasResume
    \/ ~r.hasJd
    \/ r.filename = <<>>
    \/ ~IsPdfName(r.filename)
    \/ Blank(r.jd)

NoExtractableText(d) ==
    \/ d.parseRaises
    \/ \E i \in 1..Len(d.pages) : d.pages[i].raises
    \/ \A i \in 1..Len(d.pages) : Blank(d.pages[i].text)

----------------------------------------------------------------------------
(* Claims *)

\* C1: whenever a call of the Analysis Client (attempt 1, 2 or 3) returned a
\* text T, the handler has returned 200 with body {success: true, analysis: T},
\* T being exactly the text of that call.
C1_SuccessReturnsTextUnmodified ==
    \A i \in 1..Calls :
        CallLog[i].out = "ok" =>
            /\ pc = "done"
            /\ i = Calls
            /\ response.status = 200
            /\ response.success
            /\ response.analysis = CallLog[i].text
            /\ response.error = ""

C1_Witness ==
    /\ pc = "done"
    /\ Calls = 3
    /\ CallLog[3].out = "ok"
    /\ CallLog[3].text = "No match"
    /\ response = Success("No match")

\* C2: when the Analysis Client reports an API error k times (k in 0..2) and
\* then succeeds, the handler returns the success response after exactly k+1
\* calls, sleeping 1s between calls 1 and 2 and 2s between calls 2 and 3, and
\* neither before the first call nor after the successful one.
C2_RetryBackoff ==
    (pc = "done" /\ StubFailsThenSucceeds) =>
        /\ CallLog[Calls].out = "ok"
        /\ response.status = 200
        /\ response.success
        /\ Calls = ApiErrors + 1
        /\ Len(RetryLog) = 2 * ApiErrors + 1
        /\ \A i \in 1..Calls :
              /\ RetryLog[2 * i - 1].ev = "call"
              /\ RetryLog[2 * i - 1].n = i
        /\ \A i \in 1..ApiErrors :
              /\ RetryLog[2 * i].ev = "sleep"
              /\ RetryLog[2 * i].n = ExpectedDelays[i]

C2_Witness ==
    /\ pc = "done"
    /\ StubFailsThenSucceeds
    /\ ApiErrors = 2
    /\ Calls = 3
    /\ response.status = 200
    /\ SleepTotal = 3

\* C3: when the Analysis Client reports an API error on every attempt, the
\* handler returns 500 with a message naming 3 attempts after exactly 3 calls,
\* never makes a 4th call, and does not sleep after the third failure.
C3_GivesUpAfterThreeAttempts ==
    StubAlwaysFails =>
        /\ Calls <= 3
        /\ pc = "done" =>
              /\ Calls = 3
              /\ response.status = 500
              /\ response.error = "Gemini API Error after attempts"
              /\ response.attempts = 3
              /\ Len(SleepLog) = 2
              /\ RetryLog[Len(RetryLog)].ev = "call"

C3_Witness ==
    /\ pc = "done"
    /\ StubAlwaysFails
    /\ Calls = 3
    /\ response = ApiErrorResp

\* C4: when a call of the Analysis Client raises an exception that is not an
\* API error, on the first attempt or on a later one, the handler returns 500
\* at once with an error distinct from the API-error response: that call is
\* the last event of the request (no sleep, no further call), and if it was
\* the first call the call count is 1.
C4_UnexpectedExceptionAborts ==
    \A i \in 1..Len(RetryLog) :
        RetryLog[i].out = "Exception" =>
            /\ i = Len(RetryLog)
            /\ pc = "done"
            /\ response.status = 500
            /\ response.error = "Unexpected error"
            /\ response.error # ApiErrorResp.error
            /\ ~response.success
            /\ (i = 1 => Calls = 1)

C4_Witness ==
    /\ pc = "done"
    /\ Calls = 2
    /\ CallLog[1].out = "APIError"
    /\ CallLog[2].out = "Exception"
    /\ response = UnexpectedResp

\* C5: a document with no extractable text (parsing throws, no pages, every
\* page empty or whitespace only) never reaches the Analysis Client, and the
\* extractor's verdict on it is the ExtractionFailure 500 response; in every
\* state in which the Analysis Client has been called the extracted text is
\* non-empty.
C5_EmptyTextNeverSentDownstream ==
    /\ NoExtractableText(req.doc) =>
          /\ Calls = 0
          /\ pc \notin {"prompt", "call"}
          /\ (pc = "done" /\ Extractions > 0) => response = ExtractionFailure
    /\ (Calls > 0 \/ pc \in {"prompt", "call"}) =>
          /\ ~resume_text.none
          /\ resume_text.text # <<>>
          /\ ~Blank(resume_text.text)

C5_Witness ==
    /\ pc = "done"
    /\ Extractions = 1
    /\ ~req.doc.parseRaises
    /\ Len(req.doc.pages) = 2
    /\ req.doc.pages[1].text = <<" ">>
    /\ req.doc.pages[2].text = <<" ">>
    /\ ~req.doc.pages[1].raises
    /\ ~req.doc.pages[2].raises
    /\ response = ExtractionFailure
    /\ Calls = 0

\* C6 as stated: every request that fails input validation is answered 400,
\* and neither the Text Extractor nor the Analysis Client is invoked.
C6_InvalidRequestAlways400 ==
    FailsValidation(req) =>
        /\ Extractions = 0
        /\ Calls = 0
        /\ pc = "done" => response.status = 400

\* C6 amended: for a request that fails input validation neither the Text
\* Extractor nor the Analysis Client is invoked; the response is 400 when the
\* client is initialised and the form data is read without error, the
\* service-unavailable 500 when the client is not initialised, and when
\* reading the form data raises (body over the upload limit) the exception
\* leaves the handler with no response.
C6_InvalidRequestRejected ==
    FailsValidation(req) =>
        /\ Extractions = 0
        /\ Calls = 0
        /\ pc \in {"idle", "check_client", "validate", "done"}
        /\ pc = "done" =>
              IF client = "None" THEN response = ClientNotInitialized
              ELSE IF req.tooLarge THEN escaped /\ response = NoResponse
              ELSE response.status = 400 /\ response.error # "" /\ ~escaped

C6_Witness ==
    /\ pc = "done"
    /\ client = "Client"
    /\ req.hasResume
    /\ req.hasJd
    /\ IsPdfName(req.filename)
    /\ req.jd = <<" ", " ">>
    /\ ~NoExtractableText(req.doc)
    /\ response = EmptyJobDescription

\* C7: with the client never constructed, every POST /analyze ends at the
\* first step with the service-unavailable 500 response, whatever the request:
\* no validation result, no extraction, no Analysis Client call.
C7_NoClientFailsFast ==
    (phase = "serving" /\ client = "None") =>
        /\ pc \in {"idle", "check_client", "done"}
        /\ log = <<>>
        /\ raised = "none"
        /\ resume_text = NoText
        /\ pc = "done" => response = ClientNotInitialized /\ response.status = 500

C7_Witness ==
    /\ client = "None"
    /\ pc = "done"
    /\ response = ClientNotInitialized
    /\ FailsValidation(req)
    /\ req.tooLarge

\* C8: an exception raised in steps 2-7 is caught at the outer boundary and
\* answered with the internal-error 500 response; none leaves analyze_resume,
\* the validation steps included.
C8_NoExceptionEscapes ==
    (pc = "done" /\ raised # "none") =>
        /\ ~escaped
        /\ response = InternalErrorResp

\* C9 as stated: without a client startup does not crash, GET / serves, and
\* every POST /analyze response has status 503.
C9_Degraded503 ==
    /\ phase # "crashed"
    /\ (phase = "serving" /\ client = "None") =>
          /\ ENABLED Index
          /\ indexResp \in {NoResponse, IndexPage}
          /\ pc = "done" => response.status = 503

\* C9 amended: without a client startup does not crash, GET / serves, and
\* every POST /analyze response has status 500.
C9_Degraded500 ==
    /\ phase # "crashed"
    /\ (phase = "serving" /\ client = "None") =>
          /\ ENABLED Index
          /\ indexResp \in {NoResponse, IndexPage}
          /\ pc = "done" => response.status = 500

C9_Witness ==
    /\ phase = "serving"
    /\ client = "None"
    /\ indexResp = IndexPage
    /\ pc = "done"
    /\ response.status = 500

\* C10: every request's handling ends; once the retry loop is entered it ends
\* with a response (the loop is never left without returning), after at most
\* 3 calls and at most 2 sleeps of at most 3 seconds in total.
C10_BoundedRetryTerminates ==
    /\ [](/\ Calls <= 3
          /\ Len(SleepLog) <= 2
          /\ SleepTotal <= 3
          /\ (pc = "done" /\ Calls > 0) => (response # NoResponse /\ ~escaped))
    /\ (pc = "check_client" ~> pc = "done")
    /\ (pc = "call" ~> (pc = "done" /\ response # NoResponse))

C10_Witness ==
    /\ pc = "done"
    /\ Calls = 3
    /\ Len(SleepLog) = 2
    /\ SleepTotal = 3
    /\ CallLog[3].out = "Exception"

====
